---- MODULE Spec2Model ----
(***************************************************************************)
(* Model of the Linear plugin for Relicta (relicta-tech/plugin-linear):    *)
(* the issue-reference extractor (extractIssues) and the post-publish      *)
(* reconciliation run (handlePostPublish / processLinkedIssues).           *)
(*                                                                         *)
(* Texts are sequences of one-character strings, so that the pattern       *)
(* matcher and strings.EqualFold are computed character by character.      *)
(***************************************************************************)
EXTENDS Integers, Sequences, FiniteSets, TLC

(***************************************************************************)
(* Characters (ASCII classes used by the regexp and by EqualFold)          *)
(***************************************************************************)
UpperChars ==
    <<"A","B","C","D","E","F","G","H","I","J","K","L","M",
      "N","O","P","Q","R","S","T","U","V","W","X","Y","Z">>

LowerChars ==
    <<"a","b","c","d","e","f","g","h","i","j","k","l","m",
      "n","o","p","q","r","s","t","u","v","w","x","y","z">>

DigitChars ==
    {"0","1","2","3","4","5","6","7","8","9"}

UpperSet ==
    {UpperChars[i] : i \in DOMAIN UpperChars}

LowerSet ==
    {LowerChars[i] : i \in DOMAIN LowerChars}

\* [A-Z]
IsUpper(c) ==
    c \in UpperSet

IsLower(c) ==
    c \in LowerSet

\* \d
IsDigit(c) ==
    c \in DigitChars

\* \w of RE2: [0-9A-Za-z_]
IsWordChar(c) ==
    IsUpper(c) \/ IsLower(c) \/ IsDigit(c) \/ c = "_"

\* simple case folding of one ASCII character
FoldChar(c) ==
    IF IsLower(c)
    THEN UpperChars[CHOOSE i \in DOMAIN LowerChars : LowerChars[i] = c]
    ELSE c

\* strings.EqualFold on ASCII texts
EqualFold(s, t) ==
    /\ Len(s) = Len(t)
    /\ \A i \in 1..Len(s) : FoldChar(s[i]) = FoldChar(t[i])

(***************************************************************************)
(* issuePattern: \b([A-Z]{2,10})-(\d+)\b                                   *)
(***************************************************************************)
MinPrefixLetters == 2
MaxPrefixLetters == 10

Max(S) ==
    CHOOSE x \in S : \A y \in S : y <= x

IsWordAt(t, i) ==
    i >= 1 /\ i <= Len(t) /\ IsWordChar(t[i])

\* \b between position i-1 and position i of t (1-based, i in 1..Len(t)+1)
WordBoundary(t, i) ==
    IsWordAt(t, i - 1) # IsWordAt(t, i)

\* the digit counts m >= 1 for which (\d+)\b matches t[d..d+m-1]
DigitCounts(t, d) ==
    {m \in 1..(Len(t) - d + 1) :
        /\ \A k \in 0..(m - 1) : IsDigit(t[d + k])
        /\ WordBoundary(t, d + m)}

\* the letter counts n for which ([A-Z]{2,10})-(\d+)\b matches from s
LetterCounts(t, s) ==
    {n \in MinPrefixLetters..MaxPrefixLetters :
        /\ s + n <= Len(t)
        /\ \A k \in 0..(n - 1) : IsUpper(t[s + k])
        /\ t[s + n] = "-"
        /\ DigitCounts(t, s + n + 1) # {}}

\* the pattern matches t starting at s
MatchesAt(t, s) ==
    WordBoundary(t, s) /\ LetterCounts(t, s) # {}

\* the match at s (greedy quantifiers): whole = match[0], letters = match[1]
MatchAt(t, s) ==
    LET n == Max(LetterCounts(t, s))
        m == Max(DigitCounts(t, s + n + 1))
    IN  [whole   |-> SubSeq(t, s, s + n + m),
         letters |-> SubSeq(t, s, s + n - 1),
         next    |-> s + n + 1 + m]

RECURSIVE FindFrom(_, _)
\* the leftmost non-overlapping matches of t from position pos on
FindFrom(t, pos) ==
    IF pos > Len(t) THEN <<>>
    ELSE IF MatchesAt(t, pos)
         THEN <<MatchAt(t, pos)>> \o FindFrom(t, MatchAt(t, pos).next)
         ELSE FindFrom(t, pos + 1)

\* issuePattern.FindAllStringSubmatch(commit, -1)
FindAllStringSubmatch(t) ==
    FindFrom(t, 1)

(***************************************************************************)
(* extractIssues                                                           *)
(***************************************************************************)
\* the prefix compared case-sensitively
PrefixAcceptsExact(letters, prefix) ==
    prefix = <<>> \/ letters = prefix

\* prefix == "" || strings.EqualFold(match[1], prefix)
PrefixAccepts(letters, prefix) ==
    prefix = <<>> \/ EqualFold(letters, prefix)

\* the seen check dropped
AddIssueUnchecked(acc, id) ==
    [seen |-> acc.seen \cup {id}, issues |-> Append(acc.issues, id)]

\* if !seen[id] { seen[id] = true; issues = append(issues, id) }
AddIssue(acc, id) ==
    IF id \in acc.seen
    THEN acc
    ELSE [seen |-> acc.seen \cup {id}, issues |-> Append(acc.issues, id)]

RECURSIVE ScanMatches(_, _, _)
\* the inner loop over the matches of one commit
ScanMatches(matches, prefix, acc) ==
    IF matches = <<>> THEN acc
    ELSE LET match == Head(matches)
             acc2  == IF PrefixAccepts(match.letters, prefix)
                      THEN AddIssue(acc, match.whole)
                      ELSE acc
         IN  ScanMatches(Tail(matches), prefix, acc2)

RECURSIVE ScanCommits(_, _, _)
\* the outer loop over the commits
ScanCommits(cs, prefix, acc) ==
    IF cs = <<>> THEN acc
    ELSE ScanCommits(Tail(cs), prefix,
                     ScanMatches(FindAllStringSubmatch(Head(cs)), prefix, acc))

extractIssues(cs, prefix) ==
    ScanCommits(cs, prefix, [seen |-> {}, issues |-> <<>>]).issues


(***************************************************************************)
(* renderTemplate                                                          *)
(*                                                                         *)
(* A template is a sequence of parts: literal text, a field action         *)
(* {{.Name}}, or a malformed action.  A rendered text is the sequence of   *)
(* its non-empty pieces, so the empty string is <<>>.                      *)
(***************************************************************************)
Lit(text) ==
    [k |-> "lit", v |-> text]

Field(name) ==
    [k |-> "field", v |-> name]

\* an action text/template cannot parse, such as an unclosed "{{"
Malformed ==
    [k |-> "syntax", v |-> "{{"]

\* the fields of templateData
TemplateFields ==
    {"Version", "TagName", "Branch", "ReleaseType", "ReleaseNotes", "Date", "CommitSHA"}

\* templateData built from the release context; Date is time.Now()
TemplateData(ctx) ==
    [Version      |-> ctx.Version,
     TagName      |-> ctx.TagName,
     Branch       |-> ctx.Branch,
     ReleaseType  |-> ctx.ReleaseType,
     ReleaseNotes |-> ctx.ReleaseNotes,
     Date         |-> "2006-01-02",
     CommitSHA    |-> ctx.CommitSHA]

RECURSIVE ExecuteParts(_, _)
\* tmpl.Execute: the non-empty pieces written to the buffer
ExecuteParts(parts, data) ==
    IF parts = <<>> THEN <<>>
    ELSE LET p     == Head(parts)
             piece == IF p.k = "lit" THEN p.v ELSE data[p.v]
         IN  (IF piece = "" THEN <<>> ELSE <<piece>>) \o ExecuteParts(Tail(parts), data)

renderTemplate(tmplStr, ctx) ==
    IF \E i \in DOMAIN tmplStr : tmplStr[i].k = "syntax"
    THEN [err |-> "template: parse error", out |-> <<>>]
    ELSE IF \E i \in DOMAIN tmplStr :
                tmplStr[i].k = "field" /\ tmplStr[i].v \notin TemplateFields
         THEN [err |-> "template: can't evaluate field", out |-> <<>>]
         ELSE [err |-> "", out |-> ExecuteParts(tmplStr, TemplateData(ctx))]

(***************************************************************************)
(* Configuration                                                           *)
(***************************************************************************)
\* helpers.ConfigParser.GetString: the value of the key when it is present
\* and not empty, the default otherwise (raw stands for the host's map with
\* the environment fallback of api_key and team_id already applied)
GetString(raw, key, defaultVal) ==
    IF key \in DOMAIN raw /\ raw[key] # <<>> THEN raw[key] ELSE defaultVal

\* helpers.ConfigParser.GetBool
GetBool(raw, key, defaultVal) ==
    IF key \in DOMAIN raw THEN raw[key] ELSE defaultVal

\* helpers.ConfigParser.GetInt
GetInt(raw, key, defaultVal) ==
    IF key \in DOMAIN raw THEN raw[key] ELSE defaultVal

DefaultPriority == 4

DefaultReleasedState ==
    <<"D","o","n","e">>

DefaultCommentTemplate ==
    <<Lit("Released in "), Field("Version")>>

DefaultTitle ==
    <<Lit("Release "), Field("Version")>>

defaultReleaseDescription ==
    <<Lit("## Release "), Field("Version"), Lit("**Released:** "), Field("Date"),
      Lit("**Tag:** "), Field("TagName"), Lit("**Type:** "), Field("ReleaseType"),
      Lit("### Changes"), Field("ReleaseNotes")>>

\* the release_issue block of parseConfig
ParseReleaseIssue(raw) ==
    IF "release_issue" \in DOMAIN raw
    THEN LET ri == raw["release_issue"]
         IN  [Title       |-> GetString(ri, "title", DefaultTitle),
              Description |-> GetString(ri, "description", defaultReleaseDescription),
              Priority    |-> GetInt(ri, "priority", DefaultPriority)]
    ELSE [Title       |-> DefaultTitle,
          Description |-> defaultReleaseDescription,
          Priority    |-> DefaultPriority]

parseConfig(raw) ==
    LET teamKey == GetString(raw, "team_key", <<>>)
        prefix  == GetString(raw, "issue_prefix", <<>>)
    IN  [APIKey             |-> GetString(raw, "api_key", <<>>),
         TeamID             |-> GetString(raw, "team_id", <<>>),
         TeamKey            |-> teamKey,
         ProjectID          |-> GetString(raw, "project_id", <<>>),
         IssuePrefix        |-> IF prefix = <<>> /\ teamKey # <<>> THEN teamKey ELSE prefix,
         ReleasedState      |-> GetString(raw, "released_state", DefaultReleasedState),
         CreateReleaseIssue |-> GetBool(raw, "create_release_issue", TRUE),
         ReleaseIssue       |-> ParseReleaseIssue(raw),
         UpdateLinkedIssues |-> GetBool(raw, "update_linked_issues", TRUE),
         AddReleaseComment  |-> GetBool(raw, "add_release_comment", TRUE),
         CommentTemplate    |-> GetString(raw, "comment_template", DefaultCommentTemplate)]


(***************************************************************************)
(* Bounds and the inputs drawn from them                                   *)
(***************************************************************************)
\* the commits of a release context, over all four buckets
MaxChanges == 2

\* the length of the fragment sequence the extractor's inputs are cut from
MaxSyms == 5

\* the plugin's hook names, and one the plugin does not implement
HookPostPlan == "post-plan"
HookPostPublish == "post-publish"
HookOnError == "on-error"
HookPreVersion == "pre-version"

Hooks ==
    {HookPostPlan, HookPostPublish, HookOnError, HookPreVersion}

TeamT1 ==
    <<"t","1">>

KeyEN ==
    <<"E","N">>

\* the teams of the tracker, in the order the teams query returns them
TrackerTeams ==
    <<[ID |-> <<"t","0">>, Key |-> <<"O","P","S">>,
       States |-> <<[ID |-> <<"s","0">>, Name |-> <<"T","o","d","o">>]>>],
      [ID |-> TeamT1, Key |-> KeyEN,
       States |-> <<[ID |-> <<"s","1">>, Name |-> <<"B","a","c","k","l","o","g">>],
                    [ID |-> <<"s","2">>, Name |-> <<"D","O","N","E">>],
                    [ID |-> <<"s","3">>, Name |-> <<"D","o","n","e">>]>>]>>

\* the internal ids the tracker may answer a fetch with
IssueIDs ==
    {<<"u","1">>, <<"u","2">>}

\* the issue the tracker creates for a release
CreatedIssue ==
    [ID |-> <<"u","9">>, Identifier |-> <<"E","N","-","9">>]

\* commit descriptions, one per bucket
FeatureCommit ==
    <<"a","d","d"," ","E","N","-","1">>

FixCommit ==
    <<"E","N","-","2",":"," ","f","i","x">>

BreakingCommit ==
    <<"N","E","-","3"," ","E","N","-","1">>

OtherCommit ==
    <<"e","n","-","4">>

NilChanges ==
    [nil |-> TRUE, Features |-> <<>>, Fixes |-> <<>>, Breaking |-> <<>>, Other |-> <<>>]

ChangeSets ==
    {NilChanges} \cup
    {c \in [nil : {FALSE},
            Features : {<<>>, <<FeatureCommit>>},
            Fixes    : {<<>>, <<FixCommit>>},
            Breaking : {<<>>, <<BreakingCommit>>},
            Other    : {<<>>, <<OtherCommit>>}] :
        Len(c.Features) + Len(c.Fixes) + Len(c.Breaking) + Len(c.Other) <= MaxChanges}

ReleaseContexts ==
    {[Version |-> "1.2.3", TagName |-> "v1.2.3", Branch |-> "main",
      ReleaseType |-> "minor", ReleaseNotes |-> "", CommitSHA |-> "abc123",
      Changes |-> c] : c \in ChangeSets}

\* raw configuration maps: <<>> is the map without the key
ToggleOpts(key) ==
    {<<>>, key :> FALSE}

StateOpts ==
    {<<>>, "released_state" :> <<"S","h","i","p","p","e","d">>}

CommentOpts ==
    {<<>>,
     "comment_template" :> <<Field("ReleaseNotes")>>,
     "comment_template" :> <<Lit("Released in "), Field("Bogus")>>}

TeamOpts ==
    {<<>>, "team_id" :> TeamT1, "team_key" :> KeyEN, "team_key" :> <<"e","n">>}

PrefixOpts ==
    {<<>>, "issue_prefix" :> <<"n","e">>}

ReleaseIssueOpts ==
    {<<>>,
     "release_issue" :> ("title" :> <<Malformed>>),
     "release_issue" :> ("description" :> <<Lit("Notes "), Field("Bogus")>>)}

\* the toggles, the released state and the comment template, team by id
CoreConfigs ==
    {("team_id" :> TeamT1) @@ c @@ u @@ a @@ s @@ t :
        c \in ToggleOpts("create_release_issue"),
        u \in ToggleOpts("update_linked_issues"),
        a \in ToggleOpts("add_release_comment"),
        s \in StateOpts,
        t \in CommentOpts}

\* team resolution and the prefix filter
TeamConfigs ==
    {t @@ p @@ ("create_release_issue" :> FALSE) : t \in TeamOpts, p \in PrefixOpts}

\* the release-issue templates
ReleaseIssueConfigs ==
    {("team_id" :> TeamT1) @@ r : r \in ReleaseIssueOpts}

RawConfigs ==
    CoreConfigs \cup TeamConfigs \cup ReleaseIssueConfigs

Configs ==
    {parseConfig(raw) : raw \in RawConfigs}


(***************************************************************************)
(* State                                                                   *)
(***************************************************************************)
VARIABLES
    hook,             \* req.Hook
    dryRun,           \* req.DryRun
    cfg0,             \* the configuration Execute parsed from req.Config
    cfg,              \* the *Config the handlers hold, which they may write
    releaseCtx,       \* req.Context
    pc,               \* position of the run
    team,             \* the team handlePostPublish resolved
    calls,            \* the gateway calls made so far, in order
    issueIDs,         \* processLinkedIssues: the identifiers to reconcile
    idx,              \* processLinkedIssues: index of the current identifier
    issue,            \* processLinkedIssues: the issue fetched for it
    releasedStateID,  \* processLinkedIssues: id of the released state, or ""
    comment,          \* processLinkedIssues: the rendered comment, or ""
    updated,          \* processLinkedIssues: issues transitioned
    commented,        \* processLinkedIssues: issues commented
    errs,             \* processLinkedIssues: the warnings recorded
    results,          \* handlePostPublish: the parts of the message
    resp,             \* the *plugin.ExecuteResponse returned
    commits,          \* extractIssues: its first argument
    prefix,           \* extractIssues: its second argument
    extracted,        \* extractIssues: its result
    xpc,              \* position of the extractor run
    vcfg,             \* Validate: the configuration it parsed
    vb,               \* Validate: the errors added to the validation builder
    viewerCalls,      \* Validate: the get_viewer calls made, by outcome
    vpc               \* position of the Validate call

vars ==
    <<hook, dryRun, cfg0, cfg, releaseCtx, pc, team, calls, issueIDs, idx, issue,
      releasedStateID, comment, updated, commented, errs, results, resp,
      commits, prefix, extracted, xpc, vcfg, vb, viewerCalls, vpc>>

runVars ==
    <<hook, dryRun, cfg0, cfg, releaseCtx, pc, team, calls, issueIDs, idx, issue,
      releasedStateID, comment, updated, commented, errs, results, resp>>

extractVars ==
    <<commits, prefix, extracted, xpc>>

validateVars ==
    <<vcfg, vb, viewerCalls, vpc>>

NoTeam ==
    [ID |-> <<>>, Key |-> <<>>, States |-> <<>>]

NoIssue ==
    [ID |-> <<>>, Identifier |-> <<>>]

NoWarning ==
    [kind |-> "", ident |-> <<>>, name |-> <<>>, cause |-> ""]

NoOutputs ==
    [present |-> FALSE, isNil |-> TRUE, linked_issues |-> <<>>]

NoResponse ==
    [Success |-> FALSE, Message |-> <<>>, Error |-> <<>>, Outputs |-> NoOutputs]

\* one entry of errs; kind stands for the format string
Warning(kind, ident, name, cause) ==
    [kind |-> kind, ident |-> ident, name |-> name, cause |-> cause]

\* one element of results; kind stands for the format string
Part(kind, n, name, text, list, warn) ==
    [kind |-> kind, n |-> n, name |-> name, text |-> text, list |-> list, warn |-> warn]

\* one gateway call: the operation, the identifier the loop was at,
\* the entity addressed, the argument sent and whether it succeeded
Call(op, ident, target, arg, ok) ==
    [op |-> op, ident |-> ident, target |-> target, arg |-> arg, ok |-> ok]

\* &plugin.ExecuteResponse{Success: true, Message: strings.Join(parts, "; ")}
Succeeded(parts, outputs) ==
    [Success |-> TRUE, Message |-> parts, Error |-> <<>>, Outputs |-> outputs]

\* &plugin.ExecuteResponse{Success: false, Error: fmt.Sprintf(what, cause)}
Failed(what, cause) ==
    [Success |-> FALSE, Message |-> <<>>, Error |-> <<what, cause>>, Outputs |-> NoOutputs]

\* the buckets read in the opposite order
CommitMessagesReversed(ctx) ==
    IF ctx.Changes.nil THEN <<>>
    ELSE ctx.Changes.Other \o ctx.Changes.Breaking \o
         ctx.Changes.Fixes \o ctx.Changes.Features

\* the descriptions of the four buckets, in the order the handlers append them
CommitMessages(ctx) ==
    IF ctx.Changes.nil THEN <<>>
    ELSE ctx.Changes.Features \o ctx.Changes.Fixes \o
         ctx.Changes.Breaking \o ctx.Changes.Other

RunInit ==
    /\ hook \in Hooks
    /\ dryRun \in BOOLEAN
    /\ cfg0 \in Configs
    /\ cfg = cfg0
    /\ releaseCtx \in ReleaseContexts
    /\ pc = "start"
    /\ team = NoTeam
    /\ calls = <<>>
    /\ issueIDs = <<>>
    /\ idx = 0
    /\ issue = NoIssue
    /\ releasedStateID = <<>>
    /\ comment = <<>>
    /\ updated = 0
    /\ commented = 0
    /\ errs = <<>>
    /\ results = <<>>
    /\ resp = NoResponse

ExtractIdle ==
    /\ commits = <<>>
    /\ prefix = <<>>
    /\ extracted = <<>>
    /\ xpc = "idle"

ValidateIdle ==
    /\ vcfg = parseConfig(<<>>)
    /\ vb = <<>>
    /\ viewerCalls = <<>>
    /\ vpc = "idle"

Init ==
    RunInit /\ ExtractIdle /\ ValidateIdle

(***************************************************************************)
(* Execute: the handlers without gateway calls                             *)
(***************************************************************************)
\* Outputs: map[string]any{"linked_issues": ...}; []string{} when nothing was
\* found, the slice extractIssues returned otherwise
LinkedIssuesOutput(issues) ==
    [present |-> TRUE, isNil |-> FALSE, linked_issues |-> issues]

handlePostPlan ==
    /\ pc = "start"
    /\ hook = HookPostPlan
    /\ LET issues == extractIssues(CommitMessages(releaseCtx), cfg.IssuePrefix)
       IN  resp' = IF Len(issues) = 0
                   THEN Succeeded(<<Part("no_linked", 0, <<>>, <<>>, <<>>, NoWarning)>>,
                                  LinkedIssuesOutput(<<>>))
                   ELSE Succeeded(<<Part("found", Len(issues), <<>>, <<>>, issues, NoWarning)>>,
                                  LinkedIssuesOutput(issues))
    /\ pc' = "done"
    /\ UNCHANGED <<hook, dryRun, cfg0, cfg, releaseCtx, team, calls, issueIDs, idx, issue,
                   releasedStateID, comment, updated, commented, errs, results>>
    /\ UNCHANGED extractVars
    /\ UNCHANGED validateVars

handleOnError ==
    /\ pc = "start"
    /\ hook = HookOnError
    /\ resp' = Succeeded(<<Part("failure_noted", 0, <<>>, <<>>, <<>>, NoWarning)>>, NoOutputs)
    /\ pc' = "done"
    /\ UNCHANGED <<hook, dryRun, cfg0, cfg, releaseCtx, team, calls, issueIDs, idx, issue,
                   releasedStateID, comment, updated, commented, errs, results>>
    /\ UNCHANGED extractVars
    /\ UNCHANGED validateVars

\* an unknown hook answered with a failure
HookRejected ==
    /\ pc = "start"
    /\ hook \notin {HookPostPlan, HookPostPublish, HookOnError}
    /\ resp' = Failed("unknown hook: ", hook)
    /\ pc' = "done"
    /\ UNCHANGED <<hook, dryRun, cfg0, cfg, releaseCtx, team, calls, issueIDs, idx, issue,
                   releasedStateID, comment, updated, commented, errs, results>>
    /\ UNCHANGED extractVars
    /\ UNCHANGED validateVars

\* the default branch of Execute's switch
HookNotImplemented ==
    /\ pc = "start"
    /\ hook \notin {HookPostPlan, HookPostPublish, HookOnError}
    /\ resp' = Succeeded(<<Part("not_implemented", 0, <<>>, <<hook>>, <<>>, NoWarning)>>,
                         NoOutputs)
    /\ pc' = "done"
    /\ UNCHANGED <<hook, dryRun, cfg0, cfg, releaseCtx, team, calls, issueIDs, idx, issue,
                   releasedStateID, comment, updated, commented, errs, results>>
    /\ UNCHANGED extractVars
    /\ UNCHANGED validateVars

\* the preview of the release issue without its title
DryRunResultsUntitled(c, ctx) ==
    (IF c.CreateReleaseIssue
     THEN <<Part("would_create", 0, <<>>, <<>>, <<>>, NoWarning)>>
     ELSE <<>>) \o
    (IF c.UpdateLinkedIssues
     THEN <<Part("would_update", 0, c.ReleasedState, <<>>, <<>>, NoWarning)>>
     ELSE <<>>) \o
    (IF c.AddReleaseComment
     THEN <<Part("would_comment", 0, <<>>, renderTemplate(c.CommentTemplate, ctx).out,
                 <<>>, NoWarning)>>
     ELSE <<>>)

\* the results of the dry-run branch of handlePostPublish
DryRunResults(c, ctx) ==
    (IF c.CreateReleaseIssue
     THEN <<Part("would_create", 0, <<>>, renderTemplate(c.ReleaseIssue.Title, ctx).out,
                 <<>>, NoWarning)>>
     ELSE <<>>) \o
    (IF c.UpdateLinkedIssues
     THEN <<Part("would_update", 0, c.ReleasedState, <<>>, <<>>, NoWarning)>>
     ELSE <<>>) \o
    (IF c.AddReleaseComment
     THEN <<Part("would_comment", 0, <<>>, renderTemplate(c.CommentTemplate, ctx).out,
                 <<>>, NoWarning)>>
     ELSE <<>>)

handlePostPublishDryRun ==
    /\ pc = "start"
    /\ hook = HookPostPublish
    /\ dryRun
    /\ results' = DryRunResults(cfg, releaseCtx)
    /\ resp' = Succeeded(results', NoOutputs)
    /\ pc' = "done"
    /\ UNCHANGED <<hook, dryRun, cfg0, cfg, releaseCtx, team, calls, issueIDs, idx, issue,
                   releasedStateID, comment, updated, commented, errs>>
    /\ UNCHANGED extractVars
    /\ UNCHANGED validateVars


(***************************************************************************)
(* handlePostPublish, the run against the tracker                          *)
(***************************************************************************)
\* the teams of the tracker that satisfy P, in order
TeamsWith(P(_)) ==
    SelectSeq(TrackerTeams, P)

\* LinearClient.GetTeam: the results the call can have
GetTeamResults(teamID, teamKey) ==
    IF teamID # <<>>
    THEN LET byID(t) == t.ID = teamID
             found   == TeamsWith(byID)
         IN  {[err |-> "GraphQL error", team |-> NoTeam],
              [err |-> "", team |-> IF found = <<>> THEN NoTeam ELSE Head(found)]}
    ELSE IF teamKey # <<>>
         THEN LET byKey(t) == t.Key = teamKey
                  found    == TeamsWith(byKey)
              IN  {[err |-> "API error", team |-> NoTeam],
                   IF found = <<>>
                   THEN [err |-> "team with key not found", team |-> NoTeam]
                   ELSE [err |-> "", team |-> Head(found)]}
         ELSE {[err |-> "either team_id or team_key is required", team |-> NoTeam]}

\* the error check dropped: the run goes on without a team
TeamFailedUnchecked(r) ==
    FALSE

\* team, err := client.GetTeam(...); if err != nil
TeamFailed(r) ==
    r.err # ""

\* the loop without its break: the last matching state wins
FindReleasedStateLast(states, name) ==
    LET matching(st) == EqualFold(st.Name, name)
        found        == SelectSeq(states, matching)
    IN  IF found = <<>> THEN <<>> ELSE found[Len(found)].ID

\* the id of the first state of the team whose name matches, or ""
FindReleasedState(states, name) ==
    LET matching(st) == EqualFold(st.Name, name)
        found        == SelectSeq(states, matching)
    IN  IF found = <<>> THEN <<>> ELSE Head(found).ID

\* the check of the state id dropped: the toggle alone decides
UpdateGuardToggleOnly(c, stateID) ==
    c.UpdateLinkedIssues

\* if cfg.UpdateLinkedIssues && releasedStateID != ""
UpdateGuard(c, stateID) ==
    c.UpdateLinkedIssues /\ stateID # <<>>

\* the wrong toggle tested
CommentGuardWrongToggle(c, body) ==
    c.UpdateLinkedIssues /\ body # <<>>

\* if cfg.AddReleaseComment && comment != ""
CommentGuard(c, body) ==
    c.AddReleaseComment /\ body # <<>>

\* attempts counted instead of successes
CountAttempts(n, ok) ==
    n + 1

\* if err != nil { errs = append(...) } else { updated++ }, and commented++
Count(n, ok) ==
    IF ok THEN n + 1 ELSE n

\* the failure swallowed
FetchFailureSilent(e, issueID) ==
    e

\* the warning without the identifier
FetchFailureUnnamed(e, issueID) ==
    Append(e, Warning("issue_not_found", <<>>, <<>>, "issue not found"))

\* errs = append(errs, fmt.Sprintf("Issue %s not found: %v", issueID, err))
FetchFailure(e, issueID) ==
    Append(e, Warning("issue_not_found", issueID, <<>>, "issue not found"))

\* the failure swallowed
RenderFailureSilent(e, cause) ==
    e

\* errs = append(errs, fmt.Sprintf("Failed to render comment template: %v", err))
RenderFailure(e, cause) ==
    Append(e, Warning("render_comment", <<>>, <<>>, cause))

\* the warnings listed before the counts
FinalResultsWarningsFirst(res, c, u, n, e) ==
    LET all == res \o
               [i \in 1..Len(e) |-> Part("warning", 0, <<>>, <<>>, <<>>, e[i])] \o
               (IF u > 0
                THEN <<Part("updated", u, c.ReleasedState, <<>>, <<>>, NoWarning)>>
                ELSE <<>>) \o
               (IF n > 0
                THEN <<Part("commented", n, <<>>, <<>>, <<>>, NoWarning)>>
                ELSE <<>>)
    IN  IF Len(all) = 0
        THEN <<Part("no_actions", 0, <<>>, <<>>, <<>>, NoWarning)>>
        ELSE all

\* the tail of handlePostPublish: the parts appended after processLinkedIssues
FinalResults(res, c, u, n, e) ==
    LET all == res \o
               (IF u > 0
                THEN <<Part("updated", u, c.ReleasedState, <<>>, <<>>, NoWarning)>>
                ELSE <<>>) \o
               (IF n > 0
                THEN <<Part("commented", n, <<>>, <<>>, <<>>, NoWarning)>>
                ELSE <<>>) \o
               [i \in 1..Len(e) |-> Part("warning", 0, <<>>, <<>>, <<>>, e[i])]
    IN  IF Len(all) = 0
        THEN <<Part("no_actions", 0, <<>>, <<>>, <<>>, NoWarning)>>
        ELSE all

\* a run that recorded warnings reported as a failure
ReturnFailingOnWarnings(res, c, u, n, e) ==
    /\ results' = FinalResults(res, c, u, n, e)
    /\ resp' = IF Len(e) > 0
               THEN Failed("Completed with warnings", "")
               ELSE Succeeded(results', NoOutputs)
    /\ pc' = "done"

\* handlePostPublish returns its summary
Return(res, c, u, n, e) ==
    /\ results' = FinalResults(res, c, u, n, e)
    /\ resp' = Succeeded(results', NoOutputs)
    /\ pc' = "done"

\* the loop going over the same identifier again
NextIssueRetrying(c, u, n, e) ==
    IF idx < Len(issueIDs)
    THEN /\ idx' = idx
         /\ pc' = "fetch"
         /\ UNCHANGED <<results, resp>>
    ELSE /\ idx' = idx
         /\ Return(results, c, u, n, e)

\* the loop waiting after an iteration for something that never comes
NextIssueStalling(c, u, n, e) ==
    IF idx < Len(issueIDs)
    THEN /\ idx' = idx + 1
         /\ pc' = "wait"
         /\ UNCHANGED <<results, resp>>
    ELSE /\ idx' = idx
         /\ Return(results, c, u, n, e)

\* the end of one iteration of the loop over issueIDs
NextIssue(c, u, n, e) ==
    IF idx < Len(issueIDs)
    THEN /\ idx' = idx + 1
         /\ pc' = "fetch"
         /\ UNCHANGED <<results, resp>>
    ELSE /\ idx' = idx
         /\ Return(results, c, u, n, e)

\* break instead of continue: the loop ends at the first failed fetch
BreakAfterFetchFailure(c, u, n, e) ==
    /\ idx' = idx
    /\ Return(results, c, u, n, e)

\* the continue after a failed fetch
ContinueAfterFetchFailure(c, u, n, e) ==
    NextIssue(c, u, n, e)

GetTeam ==
    /\ pc = "start"
    /\ hook = HookPostPublish
    /\ ~dryRun
    /\ \E r \in GetTeamResults(cfg.TeamID, cfg.TeamKey) :
          /\ calls' = Append(calls,
                             Call("get_team", <<>>,
                                  IF cfg.TeamID # <<>> THEN cfg.TeamID ELSE cfg.TeamKey,
                                  <<>>, r.err = ""))
          /\ IF TeamFailed(r)
             THEN /\ resp' = Failed("Failed to get team: ", r.err)
                  /\ pc' = "done"
                  /\ UNCHANGED team
             ELSE /\ team' = r.team
                  /\ pc' = IF cfg.CreateReleaseIssue THEN "create" ELSE "linked"
                  /\ UNCHANGED resp
    /\ UNCHANGED <<hook, dryRun, cfg0, cfg, releaseCtx, issueIDs, idx, issue,
                   releasedStateID, comment, updated, commented, errs, results>>
    /\ UNCHANGED extractVars
    /\ UNCHANGED validateVars

\* the render errors ignored: create_issue is called whatever the templates do
CreateReleaseIssueUnchecked(c, ctx) ==
    LET title == renderTemplate(c.ReleaseIssue.Title, ctx)
    IN  {[err |-> "", called |-> TRUE, title |-> title.out],
         [err |-> "failed to create issue", called |-> TRUE, title |-> title.out]}

\* createReleaseIssue: the results it can have; called tells whether
\* client.CreateIssue was reached
CreateReleaseIssueResults(c, ctx) ==
    LET title       == renderTemplate(c.ReleaseIssue.Title, ctx)
        description == renderTemplate(c.ReleaseIssue.Description, ctx)
    IN  IF title.err # ""
        THEN {[err |-> "failed to render title template", called |-> FALSE,
               title |-> <<>>]}
        ELSE IF description.err # ""
             THEN {[err |-> "failed to render description template", called |-> FALSE,
                    title |-> <<>>]}
             ELSE {[err |-> "", called |-> TRUE, title |-> title.out],
                   [err |-> "failed to create issue", called |-> TRUE,
                    title |-> title.out]}

\* the "Create release issue" branch of handlePostPublish
createReleaseIssue ==
    /\ pc = "create"
    /\ \E r \in CreateReleaseIssueResults(cfg, releaseCtx) :
          /\ calls' = IF r.called
                      THEN Append(calls,
                                  Call("create_issue", <<>>, team.ID, r.title, r.err = ""))
                      ELSE calls
          /\ IF r.err # ""
             THEN /\ resp' = Failed("Failed to create release issue: ", r.err)
                  /\ pc' = "done"
                  /\ UNCHANGED results
             ELSE /\ results' = Append(results,
                                       Part("created", 0, <<>>, <<>>,
                                            <<CreatedIssue.Identifier>>, NoWarning))
                  /\ pc' = "linked"
                  /\ UNCHANGED resp
    /\ UNCHANGED <<hook, dryRun, cfg0, cfg, releaseCtx, team, issueIDs, idx, issue,
                   releasedStateID, comment, updated, commented, errs>>
    /\ UNCHANGED extractVars
    /\ UNCHANGED validateVars

\* the head of processLinkedIssues: the released state and the comment
\* (the values of releasedStateID, errs, comment and cfg before the loop)
LinkedSetup(c, tm, ctx) ==
    LET lookup   == c.UpdateLinkedIssues /\ c.ReleasedState # <<>>
        stateID  == IF lookup THEN FindReleasedState(tm.States, c.ReleasedState) ELSE <<>>
        errs1    == IF lookup /\ stateID = <<>>
                    THEN <<Warning("state_not_found", <<>>, c.ReleasedState, "")>>
                    ELSE <<>>
        rendered == renderTemplate(c.CommentTemplate, ctx)
        failed   == c.AddReleaseComment /\ rendered.err # ""
    IN  [releasedStateID |-> stateID,
         comment |-> IF c.AddReleaseComment THEN rendered.out ELSE <<>>,
         errs    |-> IF failed THEN RenderFailure(errs1, rendered.err) ELSE errs1,
         cfg     |-> IF failed THEN [c EXCEPT !.AddReleaseComment = FALSE] ELSE c]

\* handlePostPublish from "Extract and update linked issues" to the first
\* fetch, or to its return when there is nothing to reconcile
processLinkedIssues ==
    /\ pc = "linked"
    /\ LET issues == IF cfg.UpdateLinkedIssues \/ cfg.AddReleaseComment
                     THEN extractIssues(CommitMessages(releaseCtx), cfg.IssuePrefix)
                     ELSE <<>>
           setup  == LinkedSetup(cfg, team, releaseCtx)
       IN  IF Len(issues) > 0
           THEN /\ issueIDs' = issues
                /\ releasedStateID' = setup.releasedStateID
                /\ comment' = setup.comment
                /\ errs' = setup.errs
                /\ cfg' = setup.cfg
                /\ idx' = 1
                /\ pc' = "fetch"
                /\ UNCHANGED <<results, resp>>
           ELSE /\ Return(results, cfg, 0, 0, <<>>)
                /\ UNCHANGED <<issueIDs, releasedStateID, comment, errs, cfg, idx>>
    /\ UNCHANGED <<hook, dryRun, cfg0, releaseCtx, team, calls, issue, updated, commented>>
    /\ UNCHANGED extractVars
    /\ UNCHANGED validateVars

\* the loop body: client.GetIssueByIdentifier
GetIssueByIdentifier ==
    /\ pc = "fetch"
    /\ LET issueID == issueIDs[idx]
       IN  \/ /\ calls' = Append(calls, Call("get_issue_by_identifier", issueID, issueID,
                                             <<>>, FALSE))
              /\ errs' = FetchFailure(errs, issueID)
              /\ ContinueAfterFetchFailure(cfg, updated, commented, errs')
              /\ UNCHANGED issue
           \/ \E id \in IssueIDs :
                 /\ calls' = Append(calls, Call("get_issue_by_identifier", issueID,
                                                issueID, <<>>, TRUE))
                 /\ issue' = [ID |-> id, Identifier |-> issueID]
                 /\ UNCHANGED errs
                 /\ IF UpdateGuard(cfg, releasedStateID)
                    THEN pc' = "update" /\ UNCHANGED <<idx, results, resp>>
                    ELSE IF CommentGuard(cfg, comment)
                         THEN pc' = "comment" /\ UNCHANGED <<idx, results, resp>>
                         ELSE NextIssue(cfg, updated, commented, errs)
    /\ UNCHANGED <<hook, dryRun, cfg0, cfg, releaseCtx, team, issueIDs,
                   releasedStateID, comment, updated, commented>>
    /\ UNCHANGED extractVars
    /\ UNCHANGED validateVars

\* the loop body: client.UpdateIssueState
UpdateIssueState ==
    /\ pc = "update"
    /\ LET issueID == issueIDs[idx]
       IN  \E ok \in BOOLEAN :
              /\ calls' = Append(calls, Call("update_issue_state", issueID, issue.ID,
                                             releasedStateID, ok))
              /\ updated' = Count(updated, ok)
              /\ errs' = IF ok THEN errs
                         ELSE Append(errs, Warning("update_failed", issueID, <<>>,
                                                   "failed to update issue state"))
              /\ IF CommentGuard(cfg, comment)
                 THEN pc' = "comment" /\ UNCHANGED <<idx, results, resp>>
                 ELSE NextIssue(cfg, updated', commented, errs')
    /\ UNCHANGED <<hook, dryRun, cfg0, cfg, releaseCtx, team, issueIDs, issue,
                   releasedStateID, comment, commented>>
    /\ UNCHANGED extractVars
    /\ UNCHANGED validateVars

\* the loop body: client.AddComment
AddComment ==
    /\ pc = "comment"
    /\ LET issueID == issueIDs[idx]
       IN  \E ok \in BOOLEAN :
              /\ calls' = Append(calls, Call("add_comment", issueID, issue.ID, comment, ok))
              /\ commented' = Count(commented, ok)
              /\ errs' = IF ok THEN errs
                         ELSE Append(errs, Warning("comment_failed", issueID, <<>>,
                                                   "failed to add comment"))
              /\ NextIssue(cfg, updated, commented', errs')
    /\ UNCHANGED <<hook, dryRun, cfg0, cfg, releaseCtx, team, issueIDs, issue,
                   releasedStateID, comment, updated>>
    /\ UNCHANGED extractVars
    /\ UNCHANGED validateVars

Next ==
    \/ handlePostPlan
    \/ handleOnError
    \/ HookNotImplemented
    \/ handlePostPublishDryRun
    \/ GetTeam
    \/ createReleaseIssue
    \/ processLinkedIssues
    \/ GetIssueByIdentifier
    \/ UpdateIssueState
    \/ AddComment

Spec ==
    Init /\ [][Next]_vars

\* Execute runs on one goroutine from call to return and every gateway call
\* returns, with a result or an error: a step of the post-publish handler
\* that can be taken is taken.  processLinkedIssues can be taken exactly
\* when pc = "linked", and its condition is written with that guard.
SpecLive ==
    /\ Init /\ [][Next]_vars
    /\ WF_vars(handlePostPublishDryRun)
    /\ WF_vars(GetTeam)
    /\ WF_vars(createReleaseIssue)
    /\ ([]<>(pc # "linked") \/ []<><<processLinkedIssues>>_vars)
    /\ WF_vars(GetIssueByIdentifier)
    /\ WF_vars(UpdateIssueState)
    /\ WF_vars(AddComment)

(***************************************************************************)
(* extractIssues on its own: the inputs are cut from sequences of          *)
(* fragments, a commit ending at each CommitBreak                          *)
(***************************************************************************)
CommitBreak ==
    <<"|">>

Fragments ==
    {<<"E","N","-","1">>, <<"N","E","-","1">>, <<"e","n","-","1">>, <<"1">>, <<" ">>}

PrefixFilters ==
    {<<>>, <<"E","n">>, <<"n","e">>}

BoundedSeq(S, n) ==
    UNION {[1..k -> S] : k \in 0..n}

RECURSIVE SplitCommits(_, _)
\* the commits of a fragment sequence; cur is the text of the commit being read
SplitCommits(syms, cur) ==
    IF syms = <<>> THEN <<cur>>
    ELSE IF Head(syms) = CommitBreak
         THEN <<cur>> \o SplitCommits(Tail(syms), <<>>)
         ELSE SplitCommits(Tail(syms), cur \o Head(syms))

CommitLists ==
    {<<>>} \cup
    {SplitCommits(syms, <<>>) : syms \in BoundedSeq(Fragments \cup {CommitBreak}, MaxSyms)}

RunIdle ==
    /\ hook = HookOnError
    /\ dryRun = FALSE
    /\ cfg0 = parseConfig(<<>>)
    /\ cfg = cfg0
    /\ releaseCtx \in {r \in ReleaseContexts : r.Changes = NilChanges}
    /\ pc = "idle"
    /\ team = NoTeam
    /\ calls = <<>>
    /\ issueIDs = <<>>
    /\ idx = 0
    /\ issue = NoIssue
    /\ releasedStateID = <<>>
    /\ comment = <<>>
    /\ updated = 0
    /\ commented = 0
    /\ errs = <<>>
    /\ results = <<>>
    /\ resp = NoResponse

InitExtract ==
    /\ RunIdle
    /\ ValidateIdle
    /\ commits \in CommitLists
    /\ prefix \in PrefixFilters
    /\ extracted = <<>>
    /\ xpc = "call"

\* a call of extractIssues(commits, prefix)
ExtractIssues ==
    /\ xpc = "call"
    /\ extracted' = extractIssues(commits, prefix)
    /\ xpc' = "returned"
    /\ UNCHANGED <<commits, prefix>>
    /\ UNCHANGED runVars
    /\ UNCHANGED validateVars

NextExtract ==
    ExtractIssues

SpecExtract ==
    InitExtract /\ [][NextExtract]_vars


(***************************************************************************)
(* Validate                                                                *)
(***************************************************************************)
\* the prefix of a Linear API key
KeyPrefix ==
    <<"l","i","n","_","a","p","i","_">>

\* strings.HasPrefix
HasPrefix(s, p) ==
    Len(s) >= Len(p) /\ SubSeq(s, 1, Len(p)) = p

MinPriority == 0
MaxPriority == 4

\* one error added to the validation builder; kind stands for the message
ValidationError(field, kind) ==
    [field |-> field, kind |-> kind]

\* the range check dropped
PriorityOutOfRangeUnchecked(n) ==
    FALSE

\* cfg.ReleaseIssue.Priority < 0 || cfg.ReleaseIssue.Priority > 4
PriorityOutOfRange(n) ==
    n < MinPriority \/ n > MaxPriority

\* if cfg.APIKey != "" && strings.HasPrefix(cfg.APIKey, "lin_api_")
ProbeGuard(c) ==
    c.APIKey # <<>> /\ HasPrefix(c.APIKey, KeyPrefix)

\* the errors Validate adds after the API key was found present and before
\* the connectivity test
FieldErrors(c) ==
    (IF c.TeamID = <<>> /\ c.TeamKey = <<>>
     THEN <<ValidationError("team_id", "required")>>
     ELSE <<>>) \o
    (IF PriorityOutOfRange(c.ReleaseIssue.Priority)
     THEN <<ValidationError("release_issue.priority", "range")>>
     ELSE <<>>) \o
    (IF c.APIKey # <<>> /\ ~HasPrefix(c.APIKey, KeyPrefix)
     THEN <<ValidationError("api_key", "format")>>
     ELSE <<>>)

\* raw configuration maps given to Validate
APIKeyOpts ==
    {<<>>,
     "api_key" :> <<>>,
     "api_key" :> (KeyPrefix \o <<"k">>),
     "api_key" :> KeyPrefix,
     "api_key" :> <<"l","i","n","_","a","p","i">>,
     "api_key" :> (<<"x">> \o KeyPrefix)}

ValidateTeamOpts ==
    {<<>>, "team_id" :> TeamT1, "team_key" :> KeyEN,
     ("team_id" :> TeamT1) @@ ("team_key" :> KeyEN)}

PriorityOpts ==
    {<<>>, "release_issue" :> <<>>} \cup
    {"release_issue" :> ("priority" :> n) : n \in {-1, 0, 2, 4, 5}}

ValidateConfigs ==
    {parseConfig(k @@ t @@ r) : k \in APIKeyOpts, t \in ValidateTeamOpts, r \in PriorityOpts}

InitValidate ==
    /\ RunIdle
    /\ ExtractIdle
    /\ vcfg \in ValidateConfigs
    /\ vb = <<>>
    /\ viewerCalls = <<>>
    /\ vpc = "call"

\* a call of Validate(ctx, config); it returns vb.Build() and a nil error
Validate ==
    /\ vpc = "call"
    /\ IF vcfg.APIKey = <<>>
       THEN /\ vb' = <<ValidationError("api_key", "required")>>
            /\ UNCHANGED viewerCalls
       ELSE IF ProbeGuard(vcfg)
            THEN \E ok \in BOOLEAN :
                    /\ viewerCalls' = Append(viewerCalls, ok)
                    /\ vb' = IF ok THEN FieldErrors(vcfg)
                             ELSE Append(FieldErrors(vcfg),
                                         ValidationError("api_key", "authenticate"))
            ELSE /\ vb' = FieldErrors(vcfg)
                 /\ UNCHANGED viewerCalls
    /\ vpc' = "returned"
    /\ UNCHANGED vcfg
    /\ UNCHANGED runVars
    /\ UNCHANGED extractVars

NextValidate ==
    Validate

SpecValidate ==
    InitValidate /\ [][NextValidate]_vars


(***************************************************************************)
(* Properties of extractIssues (checked under SpecExtract)                 *)
(***************************************************************************)
RECURSIVE MatchedTokens(_)
\* every token the pattern matches, commit after commit, left to right
MatchedTokens(cs) ==
    IF cs = <<>> THEN <<>>
    ELSE FindAllStringSubmatch(Head(cs)) \o MatchedTokens(Tail(cs))

\* the position of the first token that reads id
FirstOccurrence(toks, id) ==
    CHOOSE i \in DOMAIN toks :
        /\ toks[i].whole = id
        /\ \A j \in 1..(i - 1) : toks[j].whole # id

\* text occurs in commit c as a contiguous piece
OccursIn(text, c) ==
    \E s \in 1..(Len(c) - Len(text) + 1) : SubSeq(c, s, s + Len(text) - 1) = text

\* C1: for every list of commits and every prefix filter, the list that
\* extractIssues returns holds no identifier twice, every identifier in it is
\* a matched token, and the identifiers stand in the order of their first
\* occurrence (commits in the order supplied, matches left to right).
C1_NoDuplicatesFirstOccurrenceOrder ==
    xpc = "returned" =>
        LET toks == MatchedTokens(commits)
        IN  /\ \A i, j \in DOMAIN extracted :
                  i # j => extracted[i] # extracted[j]
            /\ \A i \in DOMAIN extracted :
                  \E k \in DOMAIN toks : toks[k].whole = extracted[i]
            /\ \A i, j \in DOMAIN extracted :
                  i < j => FirstOccurrence(toks, extracted[i])
                             < FirstOccurrence(toks, extracted[j])

\* a call that returned two identifiers from three commits, the first of
\* which names its identifier again after the second identifier appeared
C1_Witness ==
    /\ xpc = "returned"
    /\ Len(commits) = 3
    /\ Len(extracted) = 2
    /\ LET toks == MatchedTokens(commits)
       IN  /\ Len(toks) = 3
           /\ toks[1].whole = toks[3].whole
           /\ toks[1].whole # toks[2].whole
           /\ extracted = <<toks[1].whole, toks[2].whole>>

\* C2: with a non-empty prefix filter extractIssues retains exactly the
\* matched tokens whose letters equal the filter when case is ignored, each
\* as it reads in the commit text; and no identifier with a lowercase letter
\* is ever returned, whatever the filter.
C2_PrefixFilterCaseInsensitive ==
    xpc = "returned" =>
        LET toks == MatchedTokens(commits)
        IN  /\ \A i \in DOMAIN extracted :
                  /\ \A k \in DOMAIN extracted[i] : ~IsLower(extracted[i][k])
                  /\ \E c \in DOMAIN commits : OccursIn(extracted[i], commits[c])
            /\ prefix # <<>> =>
                  {extracted[i] : i \in DOMAIN extracted}
                     = {toks[k].whole : k \in {n \in DOMAIN toks :
                                                 EqualFold(toks[n].letters, prefix)}}

\* a call with a lowercase filter over a text that holds a lowercase token,
\* a token of another team and a token the filter accepts
C2_Witness ==
    /\ xpc = "returned"
    /\ prefix = <<"n","e">>
    /\ extracted = <<(<<"N","E","-","1">>)>>
    /\ \E c \in DOMAIN commits : OccursIn(<<"e","n","-","1">>, commits[c])
    /\ \E k \in DOMAIN MatchedTokens(commits) :
          MatchedTokens(commits)[k].letters = <<"E","N">>


(***************************************************************************)
(* Properties of the post-publish run (checked under Spec)                 *)
(***************************************************************************)
OpGetTeam == "get_team"
OpCreateIssue == "create_issue"
OpGetIssue == "get_issue_by_identifier"
OpUpdateState == "update_issue_state"
OpAddComment == "add_comment"

\* the positions in calls of the calls of one operation
CallsOf(op) ==
    {i \in DOMAIN calls : calls[i].op = op}

\* the positions of the calls of one operation made for one identifier
CallsFor(op, ident) ==
    {i \in CallsOf(op) : calls[i].ident = ident}

\* the positions of the calls that belong to linked-issue reconciliation
LinkedCalls ==
    CallsOf(OpGetIssue) \cup CallsOf(OpUpdateState) \cup CallsOf(OpAddComment)

\* the identifiers fetched so far, in the order of the fetches
FetchedIdentifiers ==
    LET isFetch(c) == c.op = OpGetIssue
        fetches    == SelectSeq(calls, isFetch)
    IN  [i \in DOMAIN fetches |-> fetches[i].target]

\* the response is a failure that carries a non-empty error string
FailedWithError ==
    /\ resp.Success = FALSE
    /\ \E k \in DOMAIN resp.Error : resp.Error[k] # ""

\* the configured released state names a state of the resolved team
StateResolves ==
    \E k \in DOMAIN team.States : EqualFold(team.States[k].Name, cfg0.ReleasedState)

\* the comment template as rendered against the release context
CommentRendered ==
    renderTemplate(cfg0.CommentTemplate, releaseCtx)

\* the release-issue step of this run failed to render a template
ReleaseIssueRenderFailed ==
    /\ cfg0.CreateReleaseIssue
    /\ \E i \in CallsOf(OpGetTeam) : calls[i].ok
    /\ pc \notin {"start", "create"}
    /\ \/ renderTemplate(cfg0.ReleaseIssue.Title, releaseCtx).err # ""
       \/ renderTemplate(cfg0.ReleaseIssue.Description, releaseCtx).err # ""

\* the create_issue call of this run failed
ReleaseIssueCreateFailed ==
    \E i \in CallsOf(OpCreateIssue) : ~calls[i].ok

\* C3: when the release issue cannot be created (a template fails to render,
\* or create_issue fails) the run has ended with success=false and a
\* non-empty error, no get_issue_by_identifier, update_issue_state or
\* add_comment call was made, and after a render failure no create_issue
\* call was made either.
C3_ReleaseIssueFailureIsFatal ==
    (ReleaseIssueRenderFailed \/ ReleaseIssueCreateFailed) =>
        /\ pc = "done"
        /\ FailedWithError
        /\ LinkedCalls = {}
        /\ ReleaseIssueRenderFailed => CallsOf(OpCreateIssue) = {}

\* create_issue failed in a run whose commits name an issue and whose
\* configuration asks for linked issues to be updated and commented
C3_Witness ==
    /\ ReleaseIssueCreateFailed
    /\ pc = "done"
    /\ cfg0.UpdateLinkedIssues /\ cfg0.AddReleaseComment
    /\ Len(extractIssues(CommitMessages(releaseCtx), cfg0.IssuePrefix)) = 2

\* C4: when get_team fails the run has ended with success=false and a
\* non-empty error, and get_team is the only gateway call of the run.
C4_TeamFailureIsFatal ==
    (\E i \in CallsOf(OpGetTeam) : ~calls[i].ok) =>
        /\ pc = "done"
        /\ FailedWithError
        /\ Len(calls) = 1

\* a team key that differs from the tracker's key in case only is not
\* found, in a run that would have had a release issue and linked issues
C4_Witness ==
    /\ \E i \in CallsOf(OpGetTeam) : ~calls[i].ok /\ calls[i].target = <<"e","n">>
    /\ pc = "done"
    /\ cfg0.UpdateLinkedIssues /\ cfg0.AddReleaseComment
    /\ Len(CommitMessages(releaseCtx)) = 2

\* C5: the fetches made so far are the first identifiers of the extracted
\* list, one fetch each and in its order; and when a run that reached
\* reconciliation has ended, every identifier of the list has been fetched
\* exactly once, whatever failed for the identifiers before it.
C5_EveryIdentifierFetchedOnce ==
    /\ Len(FetchedIdentifiers) <= Len(issueIDs)
    /\ FetchedIdentifiers = SubSeq(issueIDs, 1, Len(FetchedIdentifiers))
    /\ \A i, j \in DOMAIN issueIDs : i # j => issueIDs[i] # issueIDs[j]
    /\ issueIDs # <<>> =>
          issueIDs = extractIssues(CommitMessages(releaseCtx), cfg0.IssuePrefix)
    /\ (pc = "done" /\ issueIDs # <<>>) => FetchedIdentifiers = issueIDs

\* three identifiers: the fetch of the first fails, the transition and the
\* comment of the second fail, and the third is still fetched
C5_Witness ==
    /\ pc = "done"
    /\ Len(issueIDs) = 3
    /\ \E i \in CallsFor(OpGetIssue, issueIDs[1]) : ~calls[i].ok
    /\ \E i \in CallsFor(OpUpdateState, issueIDs[2]) : ~calls[i].ok
    /\ \E i \in CallsFor(OpAddComment, issueIDs[2]) : ~calls[i].ok
    /\ \E i \in CallsFor(OpGetIssue, issueIDs[3]) : calls[i].ok

\* the configuration of the end-to-end scenarios: both toggles on, the
\* released state found, the comment rendered to a text
ScenarioConfig ==
    /\ cfg0.UpdateLinkedIssues
    /\ StateResolves
    /\ cfg0.AddReleaseComment
    /\ CommentRendered.err = ""
    /\ CommentRendered.out # <<>>

\* every update_issue_state and add_comment call made so far succeeded
MutationsSucceeded ==
    \A i \in CallsOf(OpUpdateState) \cup CallsOf(OpAddComment) : calls[i].ok

\* C6: for an identifier whose fetch failed there is exactly one warning
\* naming it, the "not found" warning, and no update_issue_state or
\* add_comment call was made for it; with two identifiers, one failed fetch
\* and nothing else failing, the run ends with updated=1, commented=1 and
\* one warning, which names the identifier that was not found.
C6_FailedFetchSkipsIssue ==
    /\ \A i \in CallsOf(OpGetIssue) :
          ~calls[i].ok =>
             /\ Cardinality({k \in DOMAIN errs : errs[k].ident = calls[i].ident}) = 1
             /\ \E k \in DOMAIN errs :
                   errs[k].ident = calls[i].ident /\ errs[k].kind = "issue_not_found"
             /\ CallsFor(OpUpdateState, calls[i].ident) = {}
             /\ CallsFor(OpAddComment, calls[i].ident) = {}
    /\ \A f \in CallsOf(OpGetIssue) :
          (/\ pc = "done"
           /\ Len(issueIDs) = 2
           /\ ScenarioConfig
           /\ MutationsSucceeded
           /\ ~calls[f].ok
           /\ \A g \in CallsOf(OpGetIssue) \ {f} : calls[g].ok) =>
              /\ updated = 1
              /\ commented = 1
              /\ Len(errs) = 1
              /\ errs[1].ident = calls[f].ident

\* the second end-to-end scenario: two identifiers, the fetch of the first
\* fails, the second is transitioned and commented
C6_Witness ==
    /\ pc = "done"
    /\ Len(issueIDs) = 2
    /\ ScenarioConfig
    /\ MutationsSucceeded
    /\ \E f \in CallsFor(OpGetIssue, issueIDs[1]) : ~calls[f].ok
    /\ \E g \in CallsFor(OpGetIssue, issueIDs[2]) : calls[g].ok
    /\ updated = 1 /\ commented = 1


\* the identifiers whose fetch succeeded
FetchedOK ==
    {calls[i].ident : i \in {k \in CallsOf(OpGetIssue) : calls[k].ok}}

\* a failed transition of an issue left a warning and was followed by the
\* comment attempt for the same issue
FailedTransitionsThenComment ==
    \A j \in CallsOf(OpUpdateState) :
        ~calls[j].ok =>
           /\ \E k \in DOMAIN errs :
                 errs[k].kind = "update_failed" /\ errs[k].ident = calls[j].ident
           /\ \E c \in CallsFor(OpAddComment, calls[j].ident) : c > j

\* C7 as stated: in a finished run, when commenting is enabled and the
\* comment template rendered without error, add_comment was called exactly
\* once for every issue fetched, and a failed transition left a warning and
\* was followed by the comment attempt.
C7_CommentWheneverRendered ==
    (pc = "done" /\ cfg0.AddReleaseComment /\ CommentRendered.err = "") =>
        /\ \A id \in FetchedOK : Cardinality(CallsFor(OpAddComment, id)) = 1
        /\ FailedTransitionsThenComment

\* C7 as amended: the same, when the comment template rendered without error
\* to a text that is not empty.
C7_CommentWheneverRenderedNonEmpty ==
    (/\ pc = "done"
     /\ cfg0.AddReleaseComment
     /\ CommentRendered.err = ""
     /\ CommentRendered.out # <<>>) =>
        /\ \A id \in FetchedOK : Cardinality(CallsFor(OpAddComment, id)) = 1
        /\ FailedTransitionsThenComment

\* two issues with state updates disabled for none: the transition of the
\* first fails, that of the second succeeds, and both are commented
C7_Witness ==
    /\ pc = "done"
    /\ Len(issueIDs) = 2
    /\ cfg0.AddReleaseComment /\ CommentRendered.out # <<>>
    /\ \E j \in CallsFor(OpUpdateState, issueIDs[1]) : ~calls[j].ok
    /\ \E j \in CallsFor(OpUpdateState, issueIDs[2]) : calls[j].ok
    /\ Cardinality(CallsFor(OpAddComment, issueIDs[1])) = 1
    /\ Cardinality(CallsFor(OpAddComment, issueIDs[2])) = 1

\* state updates are enabled and no state of the team bears the configured
\* name, in a finished run that reached reconciliation
ReleasedStateAbsent ==
    /\ pc = "done"
    /\ issueIDs # <<>>
    /\ cfg0.UpdateLinkedIssues
    /\ ~StateResolves

\* what C8 says of the transitions: the run goes on to its end over every
\* identifier, one warning bears the missing state's name, and no
\* update_issue_state call is made
TransitionsSkippedWithWarning ==
    /\ resp.Success
    /\ FetchedIdentifiers = issueIDs
    /\ Cardinality({k \in DOMAIN errs :
                      errs[k].kind = "state_not_found"
                      /\ errs[k].name = cfg0.ReleasedState}) = 1
    /\ CallsOf(OpUpdateState) = {}

\* C8 as stated: with the released state absent, transitions are skipped
\* with a warning and the comment is still attempted on every issue fetched
\* whenever commenting is enabled.
C8_AbsentStateStillComments ==
    ReleasedStateAbsent =>
        /\ TransitionsSkippedWithWarning
        /\ cfg0.AddReleaseComment =>
              \A id \in FetchedOK : CallsFor(OpAddComment, id) # {}

\* C8 as amended: the comment is still attempted on every issue fetched
\* whenever commenting is enabled and the comment template rendered without
\* error to a text that is not empty.
C8_AbsentStateStillCommentsNonEmpty ==
    ReleasedStateAbsent =>
        /\ TransitionsSkippedWithWarning
        /\ (/\ cfg0.AddReleaseComment
            /\ CommentRendered.err = ""
            /\ CommentRendered.out # <<>>) =>
              \A id \in FetchedOK : CallsFor(OpAddComment, id) # {}

\* the released state is absent, two issues are fetched and both commented
C8_Witness ==
    /\ ReleasedStateAbsent
    /\ Len(issueIDs) = 2
    /\ FetchedOK = {issueIDs[1], issueIDs[2]}
    /\ CallsFor(OpAddComment, issueIDs[1]) # {}
    /\ CallsFor(OpAddComment, issueIDs[2]) # {}
    /\ commented = 2

\* the warning a failed call leaves, by kind and identifier
WarningOfCall(c) ==
    [kind  |-> IF c.op = OpGetIssue THEN "issue_not_found"
               ELSE IF c.op = OpUpdateState THEN "update_failed"
               ELSE "comment_failed",
     ident |-> c.ident]

\* the failed sub-operations of the run so far, in the order they occurred:
\* the two set-up steps of reconciliation, then the failed calls
FailedSubOperations ==
    LET failedCall(c) == c.op \in {OpGetIssue, OpUpdateState, OpAddComment} /\ ~c.ok
        failures      == SelectSeq(calls, failedCall)
    IN  (IF cfg0.UpdateLinkedIssues /\ ~StateResolves
         THEN <<[kind |-> "state_not_found", ident |-> <<>>]>>
         ELSE <<>>) \o
        (IF cfg0.AddReleaseComment /\ CommentRendered.err # ""
         THEN <<[kind |-> "render_comment", ident |-> <<>>]>>
         ELSE <<>>) \o
        [i \in DOMAIN failures |-> WarningOfCall(failures[i])]

\* C9: in a reconciliation run the transitioned count is the number of
\* update_issue_state calls that succeeded, the commented count the number
\* of add_comment calls that succeeded, and the warnings are the failed
\* sub-operations, one each and in the order they failed; with two issues,
\* the scenario's configuration and no failure the run ends with updated=2,
\* commented=2 and no warning.
C9_CountsAndWarnings ==
    /\ updated = Cardinality({i \in CallsOf(OpUpdateState) : calls[i].ok})
    /\ commented = Cardinality({i \in CallsOf(OpAddComment) : calls[i].ok})
    /\ issueIDs = <<>> => errs = <<>>
    /\ issueIDs # <<>> =>
          [k \in DOMAIN errs |-> [kind |-> errs[k].kind, ident |-> errs[k].ident]]
             = FailedSubOperations
    /\ (/\ pc = "done"
        /\ Len(issueIDs) = 2
        /\ ScenarioConfig
        /\ \A i \in LinkedCalls : calls[i].ok) =>
           updated = 2 /\ commented = 2 /\ errs = <<>>

\* two issues: the transition of the first fails and its comment succeeds,
\* the transition of the second succeeds and its comment fails
C9_Witness ==
    /\ pc = "done"
    /\ Len(issueIDs) = 2
    /\ updated = 1
    /\ commented = 1
    /\ Len(errs) = 2
    /\ errs[1].kind = "update_failed" /\ errs[1].ident = issueIDs[1]
    /\ errs[2].kind = "comment_failed" /\ errs[2].ident = issueIDs[2]

\* commenting is enabled and the comment template fails to render, in a
\* finished run that reached reconciliation
CommentRenderFailed ==
    /\ pc = "done"
    /\ issueIDs # <<>>
    /\ cfg0.AddReleaseComment
    /\ CommentRendered.err # ""

\* C10: when the comment template fails to render, one warning records it,
\* add_comment is called for no issue, the run succeeds, every identifier is
\* fetched, and every issue fetched is transitioned when state updates are
\* enabled and the released state is found.
C10_RenderFailureSuppressesComments ==
    CommentRenderFailed =>
        /\ Cardinality({k \in DOMAIN errs : errs[k].kind = "render_comment"}) = 1
        /\ CallsOf(OpAddComment) = {}
        /\ resp.Success
        /\ resp.Error = <<>>
        /\ FetchedIdentifiers = issueIDs
        /\ (cfg0.UpdateLinkedIssues /\ StateResolves) =>
              \A id \in FetchedOK : Cardinality(CallsFor(OpUpdateState, id)) = 1

\* the template fails to render; of two issues the first is not found and
\* the second is fetched and transitioned
C10_Witness ==
    /\ CommentRenderFailed
    /\ Len(issueIDs) = 2
    /\ \E i \in CallsFor(OpGetIssue, issueIDs[1]) : ~calls[i].ok
    /\ \E i \in CallsFor(OpUpdateState, issueIDs[2]) : calls[i].ok
    /\ updated = 1

(***************************************************************************)
(* Properties of Execute as a whole (checked under Spec)                   *)
(***************************************************************************)
\* the run is a post-publish run that was not a dry run
RealPostPublish ==
    hook = HookPostPublish /\ ~dryRun

\* the title template of the release issue as renderTemplate returns it
TitleRendered ==
    renderTemplate(cfg0.ReleaseIssue.Title, releaseCtx)

\* C11: gateway calls are made only by the post-publish hook with
\* dry_run=false: under every other hook, and under post-publish with
\* dry_run=true, the run makes no gateway call; and a dry post-publish run
\* with create_release_issue=true returns a message whose release-issue part
\* carries the title as rendered (the text renderTemplate returned).
C11_GatewayCallsOnlyInRealPostPublish ==
    /\ ~RealPostPublish => calls = <<>>
    /\ (pc = "done" /\ hook = HookPostPublish /\ dryRun /\ cfg0.CreateReleaseIssue) =>
          /\ resp.Success
          /\ \E i \in DOMAIN resp.Message :
                /\ resp.Message[i].kind = "would_create"
                /\ resp.Message[i].text = TitleRendered.out

C11_Witness ==
    /\ pc = "done"
    /\ hook = HookPostPublish
    /\ dryRun
    /\ cfg0.CreateReleaseIssue
    /\ TitleRendered.err = ""
    /\ calls = <<>>
    /\ resp.Message[1].kind = "would_create"
    /\ resp.Message[1].text = <<"Release ", "1.2.3">>

\* C12: the plan-time hook always returns success=true with the output field
\* linked_issues present and equal to what extractIssues returns for the
\* descriptions of the features, fixes, breaking and other buckets, in that
\* order, under the configured prefix; when nothing is found (no commits, no
\* change set, no matching token) the field is an explicit empty list and the
\* response carries no error.
C12_PlanTimeLinkedIssues ==
    (pc = "done" /\ hook = HookPostPlan) =>
        LET ch   == releaseCtx.Changes
            msgs == IF ch.nil THEN <<>>
                    ELSE ch.Features \o ch.Fixes \o ch.Breaking \o ch.Other
        IN  /\ resp.Success
            /\ resp.Error = <<>>
            /\ resp.Outputs.present
            /\ ~resp.Outputs.isNil
            /\ resp.Outputs.linked_issues = extractIssues(msgs, cfg0.IssuePrefix)
            /\ calls = <<>>

C12_Witness ==
    /\ pc = "done"
    /\ hook = HookPostPlan
    /\ releaseCtx.Changes.Features = <<FeatureCommit>>
    /\ releaseCtx.Changes.Fixes = <<FixCommit>>
    /\ cfg0.IssuePrefix = KeyEN
    /\ resp.Outputs.linked_issues = <<<<"E","N","-","1">>, <<"E","N","-","2">>>>

\* the team could not be resolved
TeamResolutionFailed ==
    \E i \in CallsOf(OpGetTeam) : ~calls[i].ok

\* the warnings listed in the message, in the order of the message
WarningsInMessage ==
    LET isWarning(part) == part.kind = "warning"
        listed          == SelectSeq(resp.Message, isWarning)
    IN  [i \in DOMAIN listed |-> listed[i].warn]

\* C13: a post-publish run with dry_run=false returns success=false exactly
\* when team resolution failed or the enabled release-issue step failed (a
\* template did not render, or create_issue failed); every other run, also
\* one in which fetches, transitions and comments fail or the released state
\* is not found, returns success=true, and its message lists the failures as
\* warnings.
C13_FailsOnlyOnSetupFailure ==
    (pc = "done" /\ RealPostPublish) =>
        /\ ~resp.Success <=>
              (TeamResolutionFailed \/ ReleaseIssueRenderFailed \/ ReleaseIssueCreateFailed)
        /\ resp.Success => (resp.Error = <<>> /\ WarningsInMessage = errs)

C13_Witness ==
    /\ pc = "done"
    /\ RealPostPublish
    /\ resp.Success
    /\ Len(issueIDs) = 2
    /\ updated = 0
    /\ commented = 0
    /\ \A i \in LinkedCalls : ~calls[i].ok
    /\ \E k \in DOMAIN errs : errs[k].kind = "state_not_found"
    /\ Len(WarningsInMessage) = 3

\* the number of successful calls of one operation
Successes(op) ==
    Cardinality({i \in CallsOf(op) : calls[i].ok})

\* the summary the claim describes: the release issue if one was created, the
\* transitions if any succeeded, the comments if any succeeded, the warnings
SummaryInOrder ==
    (IF Successes(OpCreateIssue) > 0
     THEN <<Part("created", 0, <<>>, <<>>, <<CreatedIssue.Identifier>>, NoWarning)>>
     ELSE <<>>) \o
    (IF Successes(OpUpdateState) > 0
     THEN <<Part("updated", Successes(OpUpdateState), cfg0.ReleasedState, <<>>, <<>>,
                 NoWarning)>>
     ELSE <<>>) \o
    (IF Successes(OpAddComment) > 0
     THEN <<Part("commented", Successes(OpAddComment), <<>>, <<>>, <<>>, NoWarning)>>
     ELSE <<>>) \o
    [i \in DOMAIN errs |-> Part("warning", 0, <<>>, <<>>, <<>>, errs[i])]

\* nothing was attempted: all toggles off, or no release issue and no linked
\* issue
NothingAttempted ==
    /\ ~cfg0.CreateReleaseIssue
    /\ \/ ~cfg0.UpdateLinkedIssues /\ ~cfg0.AddReleaseComment
       \/ extractIssues(CommitMessages(releaseCtx), cfg0.IssuePrefix) = <<>>

\* C14: the summary of a completed post-publish run lists, in this order,
\* the created release issue (if one was created), the number of issues
\* transitioned, the number of issues commented (each listed when it is not
\* zero) and then every recorded warning in recording order; when nothing
\* was attempted the message is the explicit "No actions taken".
C14_SummaryOrder ==
    (pc = "done" /\ RealPostPublish /\ resp.Success) =>
        /\ resp.Message = IF SummaryInOrder = <<>>
                          THEN <<Part("no_actions", 0, <<>>, <<>>, <<>>, NoWarning)>>
                          ELSE SummaryInOrder
        /\ NothingAttempted =>
              resp.Message = <<Part("no_actions", 0, <<>>, <<>>, <<>>, NoWarning)>>

C14_Witness ==
    /\ pc = "done"
    /\ RealPostPublish
    /\ resp.Success
    /\ Len(resp.Message) = 4
    /\ resp.Message[1].kind = "created"
    /\ resp.Message[2].kind = "updated"
    /\ resp.Message[3].kind = "commented"
    /\ resp.Message[4].kind = "warning"

\* C15: every Execute invocation returns a response in which success=true
\* comes with an empty error string and a non-empty message, and
\* success=false comes with a non-empty error string.
C15_ResponseWellFormed ==
    pc = "done" =>
        /\ resp.Success => (resp.Error = <<>> /\ resp.Message # <<>>)
        /\ ~resp.Success => resp.Error # <<>>

\* C16: a hook the plugin does not implement is answered with success=true,
\* a message naming the hook, an empty error string, and no gateway call.
C16_UnknownHookNotImplemented ==
    (pc = "done" /\ hook \notin {HookPostPlan, HookPostPublish, HookOnError}) =>
        /\ resp.Success
        /\ resp.Error = <<>>
        /\ resp.Message = <<Part("not_implemented", 0, <<>>, <<hook>>, <<>>, NoWarning)>>
        /\ calls = <<>>

C16_Witness ==
    /\ pc = "done"
    /\ hook = HookPreVersion
    /\ resp.Success
    /\ resp.Message[1].text = <<"pre-version">>

\* C18: the Config given to processLinkedIssues is not written: once the
\* reconciliation has run, every field of it (the add_release_comment and
\* update_linked_issues toggles in particular) has the value it had when
\* Execute parsed it, also when the comment template failed to render.
C18_ConfigUnchanged ==
    RealPostPublish => cfg = cfg0

\* the kinds of warning recorded for one linked issue
PerIssueWarnings ==
    {"issue_not_found", "update_failed", "comment_failed"}

\* the kinds of warning recorded once for the run
RunWarnings ==
    {"state_not_found", "render_comment"}

\* the identifiers being reconciled
LinkedIdentifiers ==
    {issueIDs[i] : i \in DOMAIN issueIDs}

\* the warning names the identifier of one linked issue, and a
\* sub-operation on that issue failed
NamesFailedIssue(w) ==
    /\ w.ident \in LinkedIdentifiers
    /\ \E i \in LinkedCalls :
          /\ ~calls[i].ok
          /\ calls[i].ident = w.ident
          /\ WarningOfCall(calls[i]).kind = w.kind

\* C19 as stated: every warning recorded during a reconciliation run names
\* the identifier of exactly one linked issue, the one whose sub-operation
\* failed.
C19_EveryWarningNamesOneIdentifier ==
    \A k \in DOMAIN errs : NamesFailedIssue(errs[k])

\* C19: every warning recorded for a failed fetch, transition or comment
\* names exactly one identifier, that of the linked issue whose
\* sub-operation failed; the warnings recorded once for the run (released
\* state not found, comment template not rendered) name no identifier.
C19_PerIssueWarningsNameOneIdentifier ==
    \A k \in DOMAIN errs :
        /\ errs[k].kind \in PerIssueWarnings \cup RunWarnings
        /\ errs[k].kind \in PerIssueWarnings => NamesFailedIssue(errs[k])
        /\ errs[k].kind \in RunWarnings => errs[k].ident = <<>>

C19_Witness ==
    /\ pc = "done"
    /\ Len(issueIDs) = 2
    /\ Len(errs) = 3
    /\ errs[1].kind = "render_comment"
    /\ errs[2].kind = "issue_not_found" /\ errs[2].ident = issueIDs[1]
    /\ errs[3].kind = "update_failed" /\ errs[3].ident = issueIDs[2]

\* the position of an identifier in the extracted list
IndexOf(ident) ==
    CHOOSE i \in DOMAIN issueIDs : issueIDs[i] = ident

\* the place of a linked-issue call in the order the claim describes:
\* identifiers in extraction order, and for each its fetch, transition, comment
Rank(c) ==
    3 * IndexOf(c.ident) +
    (IF c.op = OpGetIssue THEN 0 ELSE IF c.op = OpUpdateState THEN 1 ELSE 2)

\* the tracker answered distinct identifiers with distinct issues
DistinctIssues ==
    \A i, j \in CallsOf(OpUpdateState) \cup CallsOf(OpAddComment) :
        calls[i].ident # calls[j].ident => calls[i].target # calls[j].target

\* C20: the gateway calls of a post-publish run come in one fixed order and
\* none is repeated: get_team is the first call and made once, create_issue
\* (if enabled) is the second and made once, and the linked-issue calls
\* follow identifier by identifier in extraction order, each identifier's
\* fetch before its transition before its comment, a transition or comment
\* only after the successful fetch of the same identifier; so no linked
\* issue (an identifier, and the issue it resolves to when distinct
\* identifiers resolve to distinct issues) receives more than one
\* update_issue_state or add_comment call.
C20_SequentialNoRetries ==
    /\ \A i \in DOMAIN calls : calls[i].op = OpGetTeam <=> i = 1
    /\ \A i \in CallsOf(OpCreateIssue) : i = 2 /\ cfg0.CreateReleaseIssue
    /\ (cfg0.CreateReleaseIssue /\ Len(calls) >= 2) => calls[2].op = OpCreateIssue
    /\ \A i \in LinkedCalls : calls[i].ident \in LinkedIdentifiers
    /\ \A i, j \in LinkedCalls : i < j => Rank(calls[i]) < Rank(calls[j])
    /\ \A j \in CallsOf(OpUpdateState) \cup CallsOf(OpAddComment) :
          \E i \in CallsFor(OpGetIssue, calls[j].ident) : i < j /\ calls[i].ok
    /\ \A op \in {OpUpdateState, OpAddComment} :
          /\ \A ident \in LinkedIdentifiers : Cardinality(CallsFor(op, ident)) <= 1
          /\ DistinctIssues =>
                \A i, j \in CallsOf(op) : calls[i].target = calls[j].target => i = j

C20_Witness ==
    /\ pc = "done"
    /\ Len(issueIDs) = 2
    /\ DistinctIssues
    /\ [i \in DOMAIN calls |-> calls[i].op] =
          <<OpGetTeam, OpCreateIssue,
            OpGetIssue, OpUpdateState, OpAddComment,
            OpGetIssue, OpUpdateState, OpAddComment>>
    /\ [i \in 3..8 |-> calls[i].ident] =
          [i \in 3..8 |-> IF i <= 5 THEN issueIDs[1] ELSE issueIDs[2]]

\* the positions in the team's state collection of the states whose name
\* equals the configured released state, letter case ignored
MatchingStates ==
    {k \in DOMAIN team.States : EqualFold(team.States[k].Name, cfg0.ReleasedState)}

\* C21: the released state is looked up once and the comment rendered once
\* for the run: every update_issue_state call of a run carries the id of the
\* first state of the team's ordered state collection whose name equals the
\* configured released-state name case-insensitively, and every add_comment
\* call of a run carries the comment template as rendered for the run, so
\* all calls of either kind carry the same value.
C21_StateAndCommentReused ==
    /\ \A i \in CallsOf(OpUpdateState) :
          /\ MatchingStates # {}
          /\ calls[i].arg =
                team.States[CHOOSE k \in MatchingStates :
                                \A m \in MatchingStates : k <= m].ID
    /\ \A i, j \in CallsOf(OpUpdateState) : calls[i].arg = calls[j].arg
    /\ \A i \in CallsOf(OpAddComment) :
          /\ CommentRendered.err = ""
          /\ calls[i].arg = CommentRendered.out
    /\ \A i, j \in CallsOf(OpAddComment) : calls[i].arg = calls[j].arg

\* two issues transitioned to "DONE", the first of the two states of the
\* team that match "Done", and commented with the default comment
C21_Witness ==
    /\ pc = "done"
    /\ Cardinality(MatchingStates) = 2
    /\ Cardinality(CallsOf(OpUpdateState)) = 2
    /\ Cardinality(CallsOf(OpAddComment)) = 2
    /\ \A i \in CallsOf(OpUpdateState) : calls[i].arg = <<"s","2">>
    /\ \A i \in CallsOf(OpAddComment) : calls[i].arg = <<"Released in ", "1.2.3">>

\* the terminal state of a run that was aborted
FatalState ==
    /\ pc = "done"
    /\ ~resp.Success
    /\ TeamResolutionFailed \/ ReleaseIssueRenderFailed \/ ReleaseIssueCreateFailed

\* the terminal state of a run that completed, with its warnings
CompletedState ==
    /\ pc = "done"
    /\ resp.Success
    /\ WarningsInMessage = errs

\* C22: when every gateway call returns, a post-publish run ends: it reaches
\* the fatal state (team resolution or the release issue failed) or the
\* completed state with its warnings, whatever the calls answer; and the
\* loop only moves forward, each fetch being for the identifier after the
\* one fetched before.
C22_RunTerminates ==
    /\ (pc = "start" /\ RealPostPublish) ~> (FatalState \/ CompletedState)
    /\ [][idx' \in {idx, idx + 1}]_idx
    /\ [][pc' = "fetch" => idx' = idx + 1]_<<pc, idx>>

\* a run over two identifiers that completed with two warnings
C22_Witness ==
    /\ CompletedState
    /\ RealPostPublish
    /\ Len(issueIDs) = 2
    /\ idx = 2
    /\ Len(errs) = 2
    /\ Cardinality(CallsOf(OpGetIssue)) = 2

(***************************************************************************)
(* Properties of Validate (checked under SpecValidate)                     *)
(***************************************************************************)
\* the credential is present and starts with lin_api_
CredentialWellFormed ==
    /\ vcfg.APIKey # <<>>
    /\ Len(vcfg.APIKey) >= 8
    /\ SubSeq(vcfg.APIKey, 1, 8) = <<"l","i","n","_","a","p","i","_">>

\* C17: Validate reports at least one validation error whenever the
\* credential is missing, team id and team key are both missing, the
\* release-issue priority is outside 0..4, or the credential does not start
\* with lin_api_; get_viewer is called (once) exactly when the credential is
\* not empty and starts with lin_api_, and a failed call is reported as a
\* validation error in the response Validate returns.
C17_ValidateReportsErrors ==
    vpc = "returned" =>
        /\ (\/ vcfg.APIKey = <<>>
            \/ vcfg.TeamID = <<>> /\ vcfg.TeamKey = <<>>
            \/ vcfg.ReleaseIssue.Priority \notin 0..4
            \/ ~CredentialWellFormed) => vb # <<>>
        /\ Len(viewerCalls) = (IF CredentialWellFormed THEN 1 ELSE 0)
        /\ \A i \in DOMAIN viewerCalls :
              ~viewerCalls[i] =>
                  \E k \in DOMAIN vb : vb[k] = ValidationError("api_key", "authenticate")

C17_Witness ==
    /\ vpc = "returned"
    /\ CredentialWellFormed
    /\ vcfg.TeamID # <<>>
    /\ vcfg.ReleaseIssue.Priority = 5
    /\ viewerCalls = <<TRUE>>
    /\ vb = <<ValidationError("release_issue.priority", "range")>>

====
